---- MODULE Spec2Model ----
(***************************************************************************)
(* A model of LIM(xDat, lag) of LIM_analysis.py: the linear inverse model  *)
(* builder.  One call is one run of the state machine; pc is the position  *)
(* of the call in the function body, and err the exception that ended it   *)
(* there ("none" while it runs).                                           *)
(*                                                                         *)
(* Numbers.  A float64 scalar is an exact rational <<n, d>> in lowest      *)
(* terms with d > 0, or NaN, written <<0, 0>>.  Rounding and overflow are  *)
(* not modelled.  A complex128 scalar is a pair <<re, im>> of rationals.   *)
(* Indices are 0-based as in the source; a sequence s holds python element *)
(* p at s[p + 1].                                                          *)
(***************************************************************************)
EXTENDS Integers, Sequences, FiniteSets, TLC

VARIABLES xDat, lag, pc, err, xLagged, c0, cT, G, g, u, eigVal_T, v,
          cplx, b_alpha, normU, periods, decayT

vars == <<xDat, lag, pc, err, xLagged, c0, cT, G, g, u, eigVal_T, v,
          cplx, b_alpha, normU, periods, decayT>>

(***************************************************************************)
(* Bounds of the model.                                                    *)
(***************************************************************************)
MaxN == 2
MaxT == 3
MaxVal == 2
MaxNegLag == 2
MaxCells == 6

(***************************************************************************)
(* Rational arithmetic with NaN.                                           *)
(***************************************************************************)
NaN == <<0, 0>>

IsNaN(x) == x[2] = 0

IsFinite(x) == x[2] # 0

Abs(n) == IF n < 0 THEN -n ELSE n

RECURSIVE Gcd(_, _)
Gcd(a, b) == IF b = 0 THEN a ELSE Gcd(b, a % b)

Rat(n, d) ==
  IF d = 0 THEN NaN
  ELSE IF d = 1 THEN <<n, 1>>
  ELSE LET k == Gcd(Abs(n), Abs(d))
           s == IF d < 0 THEN -1 ELSE 1
       IN <<(s * n) \div k, (s * d) \div k>>

RInt(n) == <<n, 1>>

Zero == RInt(0)

One == RInt(1)

\* x + y, over the least common denominator
RAdd(x, y) ==
  IF IsNaN(x) \/ IsNaN(y) THEN NaN
  ELSE IF x[1] = 0 THEN y
  ELSE IF y[1] = 0 THEN x
  ELSE IF x[2] = 1 /\ y[2] = 1 THEN <<x[1] + y[1], 1>>
  ELSE LET k == Gcd(x[2], y[2])
       IN Rat(x[1] * (y[2] \div k) + y[1] * (x[2] \div k),
              x[2] * (y[2] \div k))

RNeg(x) == IF IsNaN(x) THEN NaN ELSE <<-x[1], x[2]>>

RSub(x, y) == RAdd(x, RNeg(y))

\* x * y, with the common factors taken out before the products
RMul(x, y) ==
  IF IsNaN(x) \/ IsNaN(y) THEN NaN
  ELSE IF x[1] = 0 \/ y[1] = 0 THEN <<0, 1>>
  ELSE IF x[2] = 1 /\ y[2] = 1 THEN <<x[1] * y[1], 1>>
  ELSE LET k == Gcd(Abs(x[1]), y[2])
           m == Gcd(Abs(y[1]), x[2])
       IN <<(x[1] \div k) * (y[1] \div m), (x[2] \div m) * (y[2] \div k)>>

\* x / y for finite x and finite y # 0
RDiv(x, y) == Rat(x[1] * y[2], x[2] * y[1])

RLess(x, y) == x[1] * y[2] < y[1] * x[2]

RECURSIVE RSum(_)
RSum(s) == IF s = <<>> THEN Zero ELSE RAdd(Head(s), RSum(Tail(s)))

(***************************************************************************)
(* numpy on 1-D arrays.                                                    *)
(***************************************************************************)
\* python's a[p] on an array of length n: the element's 0-based position,
\* or -1 when the index is out of bounds (IndexError)
PyIndex(p, n) ==
  IF p >= 0 THEN (IF p < n THEN p ELSE -1)
  ELSE (IF p + n >= 0 THEN p + n ELSE -1)

\* python's a[:stop] on an array of length n: the number of elements kept
PySliceStop(stop, n) ==
  IF stop < 0 THEN (IF n + stop > 0 THEN n + stop ELSE 0)
  ELSE (IF stop < n THEN stop ELSE n)

\* whether a * b broadcasts for 1-D arrays of these lengths
Broadcasts(la, lb) == la = lb \/ la = 1 \/ lb = 1

\* a * b, elementwise with broadcasting
ArrMul(a, b) ==
  LET la == Len(a)
      lb == Len(b)
      n  == IF la = lb THEN la ELSE IF la = 1 THEN lb ELSE la
  IN [p \in 1..n |->
        RMul(IF la = 1 /\ lb # 1 THEN a[1] ELSE a[p],
             IF lb = 1 /\ la # 1 THEN b[1] ELSE b[p])]

\* np.nansum(a): NaN elements count as zero
NanSum(a) == RSum([p \in 1..Len(a) |-> IF IsNaN(a[p]) THEN Zero ELSE a[p]])

\* np.nansum(np.isfinite(a)): the number of finite elements
CountFinite(a) == Cardinality({p \in 1..Len(a) : IsFinite(a[p])})

\* the sum divided by the length of the array
NanMeanOverLength(a) ==
  IF Len(a) = 0 THEN NaN ELSE RDiv(NanSum(a), RInt(Len(a)))

\* np.nansum(a) / np.nansum(np.isfinite(a)); a float divided by zero is NaN
\* here, since the sum over no finite element is 0.0
NanMean(a) ==
  IF CountFinite(a) = 0 THEN NaN
  ELSE RDiv(NanSum(a), RInt(CountFinite(a)))

(***************************************************************************)
(* Matrices are sequences of rows.                                         *)
(***************************************************************************)
\* the same function, with its values computed once
Stored(f) == f @@ <<>>

Rows(M) == Len(M)

Cols(M) == IF Len(M) = 0 THEN 0 ELSE Len(M[1])

Transpose(M) == [c \in 1..Cols(M) |-> [r \in 1..Rows(M) |-> M[r][c]]]

Column(M, c) == [r \in 1..Rows(M) |-> M[r][c]]

Full(n, m, x) == [r \in 1..n |-> [c \in 1..m |-> x]]

HasNaN(M) == \E r \in 1..Rows(M) : \E c \in 1..Cols(M) : IsNaN(M[r][c])

(***************************************************************************)
(* STEP 1 of LIM: the lagged and contemporaneous covariance matrices.      *)
(***************************************************************************)
nDat == Len(xDat)

nT == Len(xDat[1])

\* the lagged row one sample short: element iT is xDat[:,iT+lag-1]
LaggedRowOffByOne(row, l) ==
  [q \in 1..(Len(row) - l) |-> row[((q + l - 2) % Len(row)) + 1]]

\* xLagged[:,iT] = xDat[:,iT+lag] for iT in range(nT-lag); a negative index
\* counts from the end of the time axis
LaggedRow(row, l) ==
  [q \in 1..(Len(row) - l) |-> row[PyIndex(q - 1 + l, Len(row)) + 1]]

\* xDat_T[:-lag, iC], for xDat_T the transpose of xDat
UnlaggedSlice(XT, l, iC) ==
  [p \in 1..PySliceStop(-l, Rows(XT)) |-> XT[p][iC]]

\* c0[iR,iC] = nansum(xDat[iR,:]*xDat_T[:,iC]) / nansum(isfinite(the same))
C0Entry(X, iR, iC) == NanMean(ArrMul(X[iR], Column(Transpose(X), iC)))

\* the entry with the roles of the two variables exchanged
CTEntryExchanged(XL, X, l, iR, iC) ==
  NanMean(ArrMul(XL[iC], UnlaggedSlice(Transpose(X), l, iR)))

\* cT[iR,iC] = nansum(xLagged[iR,:]*xDat_T[:-lag,iC]) / nansum(isfinite(..))
CTEntry(XL, X, l, iR, iC) ==
  NanMean(ArrMul(XL[iR], UnlaggedSlice(Transpose(X), l, iC)))

\* the product in cT[iR,iC] is defined: the operands broadcast
CTShapesOk(X, l) ==
  Broadcasts(Len(X[1]) - l, PySliceStop(-l, Len(X[1])))

\* the values of an element of xDat: missing, negative, zero, positive
Values == {NaN, RNeg(One), Zero, RInt(MaxVal)}

Lags == (0 - MaxNegLag)..(MaxT + 1)

Unset == <<>>

Init ==
  /\ \E n \in 1..MaxN : \E t \in 1..MaxT :
        /\ n * t <= MaxCells
        /\ xDat \in [1..n -> [1..t -> Values]]
  /\ lag \in Lags
  /\ pc = "lagged"
  /\ err = "none"
  /\ xLagged = Unset /\ c0 = Unset /\ cT = Unset /\ G = Unset
  /\ g = Unset /\ u = Unset /\ eigVal_T = Unset /\ v = Unset
  /\ cplx = FALSE
  /\ b_alpha = Unset /\ normU = Unset /\ periods = Unset /\ decayT = Unset

\* lines 43-50: np.full raises ValueError on a negative dimension, and
\* xDat[:,iT+lag] raises IndexError when iT+lag < -nT
BuildLagged ==
  /\ pc = "lagged" /\ err = "none"
  /\ IF nT - lag < 0
       THEN /\ pc' = pc /\ err' = "ValueError"
            /\ UNCHANGED xLagged
     ELSE IF nT - lag > 0 /\ PyIndex(lag, nT) = -1
       THEN /\ pc' = pc /\ err' = "IndexError"
            /\ xLagged' = Full(nDat, nT - lag, NaN)
     ELSE /\ pc' = "cov" /\ err' = err
          /\ xLagged' = [r \in 1..nDat |-> LaggedRow(xDat[r], lag)]
  /\ UNCHANGED <<xDat, lag, c0, cT, G, g, u, eigVal_T, v, cplx, b_alpha,
                 normU, periods, decayT>>

\* lines 53-62: the double loop.  The shapes of the operands of the lagged
\* product are the same in every cell, so a broadcasting ValueError is raised
\* in the first cell, after c0[0,0] has been stored.
Covariance ==
  /\ pc = "cov" /\ err = "none"
  /\ IF CTShapesOk(xDat, lag)
       THEN /\ c0' = [r \in 1..nDat |-> [c \in 1..nDat |-> C0Entry(xDat, r, c)]]
            /\ cT' = [r \in 1..nDat |->
                        [c \in 1..nDat |-> CTEntry(xLagged, xDat, lag, r, c)]]
            /\ pc' = "green" /\ err' = err
       ELSE /\ c0' = [Full(nDat, nDat, NaN) EXCEPT ![1][1] = C0Entry(xDat, 1, 1)]
            /\ cT' = Full(nDat, nDat, NaN)
            /\ pc' = pc /\ err' = "ValueError"
  /\ UNCHANGED <<xDat, lag, xLagged, G, g, u, eigVal_T, v, cplx, b_alpha,
                 normU, periods, decayT>>

(***************************************************************************)
(* Complex arithmetic and linear algebra (numpy.linalg), exact.            *)
(***************************************************************************)
Cx(re, im) == <<re, im>>

Re(z) == z[1]

Im(z) == z[2]

CZero == Cx(Zero, Zero)

COne == Cx(One, Zero)

CReal(x) == Cx(x, Zero)

CAdd(a, b) == Cx(RAdd(Re(a), Re(b)), RAdd(Im(a), Im(b)))

CNeg(a) == Cx(RNeg(Re(a)), RNeg(Im(a)))

CSub(a, b) == CAdd(a, CNeg(b))

CMul(a, b) ==
  IF Im(a) = Zero /\ Im(b) = Zero THEN Cx(RMul(Re(a), Re(b)), Zero) ELSE
  Cx(RSub(RMul(Re(a), Re(b)), RMul(Im(a), Im(b))),
     RAdd(RMul(Re(a), Im(b)), RMul(Im(a), Re(b))))

\* |z|^2
CAbs2(a) == RAdd(RMul(Re(a), Re(a)), RMul(Im(a), Im(a)))

\* a / b for b # 0
CDiv(a, b) ==
  IF Im(b) = Zero THEN Cx(RDiv(Re(a), Re(b)), RDiv(Im(a), Re(b))) ELSE
  LET n == CMul(a, Cx(Re(b), RNeg(Im(b))))
  IN Cx(RDiv(Re(n), CAbs2(b)), RDiv(Im(n), CAbs2(b)))

RECURSIVE CSum(_)
CSum(s) == IF s = <<>> THEN CZero ELSE CAdd(Head(s), CSum(Tail(s)))

ToComplex(M) ==
  Stored([r \in 1..Rows(M) |-> Stored([c \in 1..Cols(M) |-> CReal(M[r][c])])])

Identity(n) == [r \in 1..n |-> [c \in 1..n |-> IF r = c THEN COne ELSE CZero]]

\* np.dot(A, B) for complex matrices
CDot(A, B) ==
  Stored([r \in 1..Rows(A) |-> Stored([c \in 1..Cols(B) |->
     CSum([k \in 1..Cols(A) |-> CMul(A[r][k], B[k][c])])])])

\* np.dot(A, B) for real matrices that may hold NaN
RDot(A, B) ==
  [r \in 1..Rows(A) |-> [c \in 1..Cols(B) |->
     RSum([k \in 1..Cols(A) |-> RMul(A[r][k], B[k][c])])]]

SkipAt(n, k) == [p \in 1..(n - 1) |-> IF p < k THEN p ELSE p + 1]

Minor(M, r, c) ==
  [i \in 1..(Rows(M) - 1) |-> [j \in 1..(Rows(M) - 1) |->
     M[SkipAt(Rows(M), r)[i]][SkipAt(Rows(M), c)[j]]]]

Sign(k) == IF k % 2 = 0 THEN COne ELSE CNeg(COne)

RECURSIVE Det(_)
Det(M) ==
  IF Rows(M) = 0 THEN COne
  ELSE CSum([c \in 1..Rows(M) |->
          CMul(CMul(Sign(1 + c), M[1][c]), Det(Minor(M, 1, c)))])

\* the adjugate: Adj(M)[r][c] is the cofactor of M[c][r]
Adj(M) ==
  Stored([r \in 1..Rows(M) |-> Stored([c \in 1..Rows(M) |->
     CMul(Sign(r + c), Det(Minor(M, c, r)))])])

\* an inverse that never reports a zero pivot
NeverSingular(M) == FALSE

Singular(M) == Det(M) = CZero

\* LA.inv(M) for a nonsingular complex matrix
Inv(M) ==
  LET d == Det(M)
      A == Adj(M)
  IN Stored([r \in 1..Rows(M) |-> Stored([c \in 1..Rows(M) |->
        CDiv(A[r][c], d)])])

\* LA.inv(M) for a nonsingular real matrix
RInv(M) ==
  LET I == Inv(ToComplex(M))
  IN Stored([r \in 1..Rows(M) |-> Stored([c \in 1..Rows(M) |-> Re(I[r][c])])])

(***************************************************************************)
(* STEP 2 of LIM: the Green function.                                      *)
(***************************************************************************)
\* line 67: G = cT.dot(LA.inv(c0)).  LA.inv raises LinAlgError("Singular
\* matrix") when the factorisation meets a zero pivot.  It does not check its
\* argument for NaN: a NaN in c0 spreads over the inverse and over G, unless
\* (nDat > 1) the pivot search still meets a zero and raises.
Green ==
  /\ pc = "green" /\ err = "none"
  /\ IF HasNaN(c0)
       THEN \/ /\ G' = Full(nDat, nDat, NaN)
               /\ pc' = "eigG" /\ err' = err
            \/ /\ nDat > 1
               /\ G' = G
               /\ pc' = pc /\ err' = "LinAlgError"
     ELSE IF Singular(ToComplex(c0))
       THEN /\ G' = G
            /\ pc' = pc /\ err' = "LinAlgError"
     ELSE /\ G' = RDot(cT, RInv(c0))
          /\ pc' = "eigG" /\ err' = err
  /\ UNCHANGED <<xDat, lag, xLagged, c0, cT, g, u, eigVal_T, v, cplx, b_alpha,
                 normU, periods, decayT>>

(***************************************************************************)
(* LA.eig.  The eigenvalues are computed exactly where they lie in Q(i):   *)
(* always for a 1 x 1 matrix, and for a 2 x 2 matrix when the discriminant *)
(* of its characteristic polynomial is plus or minus a rational square.    *)
(* Other matrices are outside the arithmetic of the model and the call is  *)
(* not followed past them.  What LA.eig leaves open is a choice: the order *)
(* of the eigenpairs, the sign of each eigenvector, and the basis of an    *)
(* eigenspace of dimension > 1.  Eigenvectors are scaled to a first        *)
(* nonzero component of 1 or -1 instead of to unit length, which is not    *)
(* rational.  The sign is varied in the adjoints v only: what the later    *)
(* statements see is the sign of v[:,k] relative to that of u[:,k].        *)
(***************************************************************************)
RECURSIVE ISqrt(_)
\* the integer part of the square root of n >= 0
ISqrt(n) ==
  IF n < 2 THEN n
  ELSE LET s == 2 * ISqrt(n \div 4)
       IN IF (s + 1) * (s + 1) <= n THEN s + 1 ELSE s

IsSquare(n) == ISqrt(n) * ISqrt(n) = n

\* x is the square of a rational
RIsSquare(x) == x[1] >= 0 /\ IsSquare(x[1]) /\ IsSquare(x[2])

RSqrt(x) == <<ISqrt(x[1]), ISqrt(x[2])>>

Half(x) == RMul(x, Rat(1, 2))

Trace2(M) == RAdd(M[1][1], M[2][2])

Det2(M) == RSub(RMul(M[1][1], M[2][2]), RMul(M[1][2], M[2][1]))

Discriminant(M) == RSub(RMul(Trace2(M), Trace2(M)), RMul(RInt(4), Det2(M)))

HasExactEig(M) ==
  \/ Rows(M) = 1
  \/ /\ Rows(M) = 2
     /\ \/ RIsSquare(Discriminant(M))
        \/ RIsSquare(RNeg(Discriminant(M)))

\* the eigenvalues of the real matrix M, with multiplicity
Eigenvalues(M) ==
  IF Rows(M) = 1 THEN <<CReal(M[1][1])>>
  ELSE LET D == Discriminant(M)
           h == Half(Trace2(M))
       IN IF RIsSquare(D)
            THEN <<CReal(RAdd(h, Half(RSqrt(D)))), CReal(RSub(h, Half(RSqrt(D))))>>
            ELSE <<Cx(h, Half(RSqrt(RNeg(D)))), Cx(h, RNeg(Half(RSqrt(RNeg(D)))))>>

ZeroMatrix(n) == [r \in 1..n |-> [c \in 1..n |-> CZero]]

\* M - lam*I
Shifted(M, lam) ==
  Stored([r \in 1..Rows(M) |-> Stored([c \in 1..Rows(M) |->
     IF r = c THEN CSub(M[r][c], lam) ELSE M[r][c]])])

CScale(s, w) == [k \in 1..Len(w) |-> CMul(s, w[k])]

\* w over its first nonzero component
Normalised(w) ==
  LET k == CHOOSE k \in 1..Len(w) :
             w[k] # CZero /\ \A j \in 1..(k - 1) : w[j] = CZero
  IN [j \in 1..Len(w) |-> CDiv(w[j], w[k])]

\* the signs of an eigenvector the solver may return
Phases == {COne, CNeg(COne)}

\* the sign the modes u are taken with
FixedPhase == {COne}

\* the vectors a solver may return as a basis of an eigenspace of dimension > 1
BasisVectors(n) ==
  {w \in [1..n -> {CZero, COne}] : \E k \in 1..n : w[k] # CZero}

\* the eigenvectors of M for its eigenvalue lam that the solver may return
EigVectors(M, lam, phases) ==
  LET A == Adj(Shifted(M, lam))
      n == Rows(M)
  IN IF A = ZeroMatrix(n)
       THEN {w \in BasisVectors(n) :
               \A r \in 1..n :
                 CSum([c \in 1..n |-> CMul(M[r][c], w[c])]) = CMul(lam, w[r])}
       ELSE LET c == CHOOSE c \in 1..n :
                       /\ Column(A, c) # [r \in 1..n |-> CZero]
                       /\ \A d \in 1..(c - 1) : Column(A, d) = [r \in 1..n |-> CZero]
            IN {CScale(s, Normalised(Column(A, c))) : s \in phases}

Perms(n) == {p \in [1..n -> 1..n] : \A i, j \in 1..n : p[i] = p[j] => i = j}

Permute(w, p) == [k \in 1..Len(w) |-> w[p[k]]]

\* M[:, p]
PermuteCols(M, p) == [r \in 1..Rows(M) |-> [k \in 1..Len(p) |-> M[r][p[k]]]]

FromColumns(cols) ==
  [r \in 1..Len(cols) |-> [k \in 1..Len(cols) |-> cols[k][r]]]

IsRealArray(w) == \A k \in 1..Len(w) : Im(w[k]) = Zero

\* LA.eig(M) for a real matrix M without NaN: the results it may return.
\* Eigenvectors of one eigenspace of dimension > 1 are linearly independent.
EigSolve(M, phases) ==
  LET n  == Rows(M)
      CM == ToComplex(M)
      ev == Eigenvalues(M)
      vs == Stored([k \in 1..n |-> EigVectors(CM, ev[k], phases)])
      cand == {cols \in [1..n -> UNION {vs[k] : k \in 1..n}] :
                 \A k \in 1..n : cols[k] \in vs[k]}
      full == {cols \in cand : ~Singular(FromColumns(cols))}
      pick == IF CM = [r \in 1..n |-> [c \in 1..n |->
                         IF r = c THEN ev[1] ELSE CZero]]
                THEN full ELSE cand
  IN {[w |-> Permute(ev, p), vecs |-> PermuteCols(FromColumns(cols), p)] :
        p \in Perms(n), cols \in pick}

\* numpy's order of complex numbers: by real part, then by imaginary part
CLess(a, b) ==
  \/ RLess(Re(a), Re(b))
  \/ Re(a) = Re(b) /\ RLess(Im(a), Im(b))

\* w.argsort()[::-1] for eigenvalues w: the orders a sort may produce (the
\* order of equal keys is not fixed)
ArgsortRevEig(w) ==
  {p \in Perms(Len(w)) :
     \A k \in 1..(Len(w) - 1) : ~CLess(w[p[k]], w[p[k + 1]])}

\* line 72: iSort = g.argsort()[::-1]
iSort(w) == ArgsortRevEig(w)

\* the adjoints left in the order the solver returned them in
Unsorted(w) == {[k \in 1..Len(w) |-> k]}

\* line 78: iSortT = eigVal_T.argsort()[::-1]
iSortT(w) == ArgsortRevEig(w)

\* lines 70-74: g, u = LA.eig(G), then sorted in descending order of g.
\* LA.eig raises LinAlgError on a matrix holding NaN.
EigG ==
  /\ pc = "eigG" /\ err = "none"
  /\ IF HasNaN(G)
       THEN /\ pc' = pc /\ err' = "LinAlgError"
            /\ UNCHANGED <<g, u, cplx>>
       ELSE /\ HasExactEig(G)
            /\ \E res \in EigSolve(G, FixedPhase) : \E p \in iSort(res.w) :
                 /\ g' = Permute(res.w, p)
                 /\ u' = PermuteCols(res.vecs, p)
                 /\ cplx' = ~IsRealArray(res.w)
            /\ pc' = "eigGT" /\ err' = err
  /\ UNCHANGED <<xDat, lag, xLagged, c0, cT, G, eigVal_T, v, b_alpha,
                 normU, periods, decayT>>

\* lines 77-80: eigVal_T, v = LA.eig(np.transpose(G)), sorted the same way
EigGT ==
  /\ pc = "eigGT" /\ err = "none"
  /\ \E res \in EigSolve(Transpose(G), Phases) : \E p \in iSortT(res.w) :
       /\ eigVal_T' = Permute(res.w, p)
       /\ v' = PermuteCols(res.vecs, p)
  /\ pc' = "beta" /\ err' = err
  /\ UNCHANGED <<xDat, lag, xLagged, c0, cT, G, g, u, cplx, b_alpha,
                 normU, periods, decayT>>

(***************************************************************************)
(* Logarithms are kept symbolic.  LogOver(z, l) stands for the principal   *)
(* complex logarithm of z divided by l, and LogNaN for the NaN that np.log *)
(* returns for a negative element of a real array.  The decay time         *)
(* -1/Re(ln(z)/l) = -2l/ln|z|^2 depends on z through q = |z|^2 only, and   *)
(* is ordered by what ln does to q.                                        *)
(***************************************************************************)
LogOver(z, l) == [nan |-> FALSE, arg |-> z, over |-> l]

LogNaN(l) == [nan |-> TRUE, arg |-> CZero, over |-> l]

\* np.log(w)[k] / l: real arithmetic on a real array, complex on a complex one
NpLogOver(z, isComplex, l) ==
  IF ~isComplex /\ RLess(Re(z), Zero) THEN LogNaN(l) ELSE LogOver(z, l)

\* -1/b.real as a symbolic value
DecayOf(b) == [nan |-> b.nan, q |-> CAbs2(b.arg), over |-> b.over]

\* the place of -2l/ln(q) on the real line for l > 0: -inf when q = 1 (the
\* quotient -1/0.0), negative and growing with q when q > 1, zero when q = 0
\* (-1/-inf), positive and growing with q when 0 < q < 1
DecayClass(q) ==
  IF q = One THEN 0
  ELSE IF RLess(One, q) THEN 1
  ELSE IF q = Zero THEN 2
  ELSE 3

DecayLessPos(a, b) ==
  \/ DecayClass(a.q) < DecayClass(b.q)
  \/ DecayClass(a.q) = DecayClass(b.q) /\ RLess(a.q, b.q)

\* a < b for two decay times that are not NaN; a negative lag negates both
DecayLess(a, b) ==
  IF a.over > 0 THEN DecayLessPos(a, b) ELSE DecayLessPos(b, a)

\* the order argsort uses: NaN after every number
SortLess(a, b) == ~a.nan /\ (b.nan \/ DecayLess(a, b))

\* sortVal.argsort()[::-1]
ArgsortRevDecay(d) ==
  {p \in Perms(Len(d)) :
     \A k \in 1..(Len(d) - 1) : ~SortLess(d[p[k]], d[p[k + 1]])}

\* b_alpha.imag as a symbolic value: the argument of b.arg over b.over, and
\* zero (the argument of 1) for every element of a real array
ImagOf(b, isComplex) ==
  [argOf |-> IF isComplex THEN b.arg ELSE COne, over |-> b.over]

\* (2 * np.pi) / b_alpha.imag
PeriodOf(b, isComplex) == [twoPiOver |-> ImagOf(b, isComplex)]

\* lines 85-95: b_alpha = np.log(g)/lag, and the sort by decreasing decay time
DecaySort ==
  /\ pc = "beta" /\ err = "none"
  /\ LET b == [k \in 1..nDat |-> NpLogOver(g[k], cplx, lag)]
         sortVal == [k \in 1..nDat |-> DecayOf(b[k])]
     IN \E iSort2 \in ArgsortRevDecay(sortVal) :
          /\ u' = PermuteCols(u, iSort2)
          /\ v' = PermuteCols(v, iSort2)
          /\ g' = Permute(g, iSort2)
          /\ b_alpha' = Permute(b, iSort2)
  /\ pc' = "normalize" /\ err' = err
  /\ UNCHANGED <<xDat, lag, xLagged, c0, cT, G, eigVal_T, cplx,
                 normU, periods, decayT>>

(***************************************************************************)
(* Normalisation, STEP 3 and the return.  L and Q are products with the    *)
(* symbolic beta and are not part of the model.                            *)
(***************************************************************************)
normFactors == CDot(Transpose(u), v)

\* normU = np.dot(u, LA.inv(normFactors))
NormU(uu, nf) == CDot(uu, Inv(nf))

\* lines 98-122: LA.inv raises LinAlgError on a singular normFactors
Finish ==
  /\ pc = "normalize" /\ err = "none"
  /\ IF Singular(normFactors)
       THEN /\ pc' = pc /\ err' = "LinAlgError"
            /\ UNCHANGED <<normU, periods, decayT>>
       ELSE /\ normU' = NormU(u, normFactors)
            /\ periods' = [k \in 1..nDat |-> PeriodOf(b_alpha[k], cplx)]
            /\ decayT' = [k \in 1..nDat |-> DecayOf(b_alpha[k])]
            /\ pc' = "returned" /\ err' = err
  /\ UNCHANGED <<xDat, lag, xLagged, c0, cT, G, g, u, eigVal_T, v, cplx,
                 b_alpha>>

Next ==
  \/ BuildLagged \/ Covariance \/ Green
  \/ EigG \/ EigGT \/ DecaySort \/ Finish

Spec == Init /\ [][Next]_vars

(***************************************************************************)
(* Properties.                                                             *)
(***************************************************************************)
\* the covariance loop has run to its end
CovDone == pc \in {"green", "eigG", "eigGT", "beta", "normalize", "returned"}

\* the lag is one the contract of LIM allows
ValidLag == 0 < lag /\ lag < nT

RECURSIVE SumOver(_, _, _)
\* the sum of a[t] * b[t] over the 0-based indices t of S, as an integer
SumOver(S, a, b) ==
  IF S = {} THEN 0
  ELSE LET t == CHOOSE t \in S : TRUE
       IN a[t + 1][1] * b[t + 1][1] + SumOver(S \ {t}, a, b)

\* the time indices at which variables i and j are both finite
BothFinite(i, j) ==
  {t \in 0..(nT - 1) : IsFinite(xDat[i][t + 1]) /\ IsFinite(xDat[j][t + 1])}

\* C1: every entry of c0 is the sum of X[i,t]*X[j,t] over the t where both
\* are finite, divided by the number of those t: no mean is subtracted and
\* the divisor is the pair's own count
C1_PairwiseSecondMoment ==
  CovDone =>
    \A i, j \in 1..nDat :
      BothFinite(i, j) # {} =>
        c0[i][j] = Rat(SumOver(BothFinite(i, j), xDat[i], xDat[j]),
                       Cardinality(BothFinite(i, j)))

\* a result is returned whose c0 has an entry over fewer than nT samples
\* that differs from the sum over nT
C1_Witness ==
  /\ pc = "returned" /\ ValidLag
  /\ \E i, j \in 1..nDat :
       /\ BothFinite(i, j) # {}
       /\ Cardinality(BothFinite(i, j)) < nT
       /\ c0[i][j] # Zero

\* the row of variable i moved lag samples to the left: element t is X[i,t+lag]
Later(i) == [t \in 1..(nT - lag) |-> xDat[i][t + lag]]

\* the t in 0..nT-lag-1 at which X[i,t+lag] and X[j,t] are both finite
BothFiniteAtLag(i, j) ==
  {t \in 0..(nT - lag - 1) :
     IsFinite(xDat[i][t + lag + 1]) /\ IsFinite(xDat[j][t + 1])}

\* C2: for 0 < lag < T every entry of cT is the sum of X[i,t+lag]*X[j,t]
\* over the t in 0..T-lag-1 where both are finite, divided by their number
C2_LaggedSecondMoment ==
  (CovDone /\ ValidLag) =>
    \A i, j \in 1..nDat :
      BothFiniteAtLag(i, j) # {} =>
        cT[i][j] = Rat(SumOver(BothFiniteAtLag(i, j), Later(i), xDat[j]),
                       Cardinality(BothFiniteAtLag(i, j)))

\* a result is returned for a valid lag whose cT is not symmetric
C2_Witness ==
  /\ pc = "returned" /\ ValidLag
  /\ \E i, j \in 1..nDat :
       /\ BothFiniteAtLag(i, j) # {}
       /\ ~HasNaN(cT)
       /\ cT[i][j] # cT[j][i]

\* the second moment that pairs variable a at time t with variable b at
\* time t+lag, over the t where both are finite
EarlierLaterMoment(a, b) ==
  Rat(SumOver(BothFiniteAtLag(b, a), xDat[a], Later(b)),
      Cardinality(BothFiniteAtLag(b, a)))

\* C3 as stated: cT[i,j] pairs variable i at time t with variable j at
\* time t+lag
C3_AsStated ==
  (CovDone /\ ValidLag /\ ~HasNaN(cT)) =>
    \A i, j \in 1..nDat : cT[i][j] = EarlierLaterMoment(i, j)

\* C3, amended: cT[i,j] pairs variable j at time t with variable i at time
\* t+lag; variable i is the later factor
C3_LaterIsRow ==
  (CovDone /\ ValidLag /\ ~HasNaN(cT)) =>
    \A i, j \in 1..nDat : cT[i][j] = EarlierLaterMoment(j, i)

\* the covariance loop has ended for a valid lag with the two readings of
\* cT disagreeing in some entry
C3_Witness ==
  /\ CovDone /\ ValidLag /\ ~HasNaN(cT)
  /\ \E i, j \in 1..nDat : EarlierLaterMoment(i, j) # EarlierLaterMoment(j, i)

\* some pair of variables has no time index at which both are finite, at
\* lag 0 or at the given lag
NoOverlap ==
  \E i, j \in 1..nDat : BothFinite(i, j) = {} \/ BothFiniteAtLag(i, j) = {}

\* C4: with such a pair the call ends in the covariance stage; no NaN is
\* stored in c0 or cT and carried to the inverse and the eigendecomposition
C4_AbortsAtCovariance ==
  (ValidLag /\ NoOverlap) => pc \in {"lagged", "cov"}

\* C5: for lag <= 0 or lag >= T the call ends before any covariance entry is
\* computed, and returns nothing
C5_BadLagAborts ==
  (lag <= 0 \/ lag >= nT) =>
    (pc \in {"lagged", "cov"} /\ c0 = Unset /\ cT = Unset)

\* w is an eigenvector of the complex matrix M for the eigenvalue lam
IsEigenpair(M, lam, w) ==
  /\ \E k \in 1..Len(w) : w[k] # CZero
  /\ \A r \in 1..Rows(M) :
       CSum([c \in 1..Rows(M) |-> CMul(M[r][c], w[c])]) = CMul(lam, w[r])

\* a >= b for two decay times
DecayGeq(a, b) == ~a.nan /\ ~b.nan /\ ~DecayLess(a, b)

\* C6: in a result returned for a valid lag every per-mode output of index k
\* belongs to the same mode, b_alpha[k] = ln(g[k])/lag, and decayT is
\* non-increasing
C6_JointOrder ==
  (pc = "returned" /\ ValidLag) =>
    /\ \A k \in 1..nDat :
         /\ b_alpha[k] = LogOver(g[k], lag)
         /\ decayT[k] = DecayOf(b_alpha[k])
         /\ periods[k] = PeriodOf(b_alpha[k], cplx)
         /\ IsEigenpair(ToComplex(G), g[k], Column(normU, k))
         /\ IsEigenpair(ToComplex(Transpose(G)), g[k], Column(v, k))
    /\ \A k \in 1..(nDat - 1) : DecayGeq(decayT[k], decayT[k + 1])

C0NotInvertible ==
  CovDone /\ ~HasNaN(c0) /\ Det(ToComplex(c0)) = CZero

\* C8: a c0 that is not invertible ends the call with LinAlgError at
\* G = cT.dot(LA.inv(c0)); no later statement runs and nothing is returned
C8_SingularC0Raises ==
  /\ [](C0NotInvertible => pc = "green")
  /\ [][(pc = "green" /\ C0NotInvertible)
          => (pc' = "green" /\ err' = "LinAlgError")]_vars

\* the call has ended with LinAlgError at the Green function, on an input
\* with two identical rows that are not zero
C8_Witness ==
  /\ pc = "green" /\ err = "LinAlgError"
  /\ nDat = 2 /\ xDat[1] = xDat[2]
  /\ ~HasNaN(c0) /\ c0[1][1] # Zero

\* C9: after the final sort, column k of v is an eigenvector of the
\* transpose of G, and column k of u and of normU an eigenvector of G, for
\* the same eigenvalue g[k]
C9_ModeCorrespondence ==
  /\ pc \in {"normalize", "returned"} =>
       \A k \in 1..nDat :
         /\ IsEigenpair(ToComplex(G), g[k], Column(u, k))
         /\ IsEigenpair(ToComplex(Transpose(G)), g[k], Column(v, k))
  /\ pc = "returned" =>
       \A k \in 1..nDat : IsEigenpair(ToComplex(G), g[k], Column(normU, k))

\* a result is returned for two modes with different eigenvalues that the
\* final sort has put in the order opposite to the first one
C9_Witness ==
  /\ pc = "returned" /\ nDat = 2 /\ ValidLag
  /\ CLess(g[1], g[2])
  /\ eigVal_T # g

\* C10: in a result returned for a valid lag b_alpha[k] is the principal
\* complex logarithm of g[k] over lag, for every nonzero eigenvalue
C10_PrincipalLog ==
  (pc = "returned" /\ ValidLag) =>
    \A k \in 1..nDat : g[k] # CZero => b_alpha[k] = LogOver(g[k], lag)

====
